---- MODULE Spec2Model ----
(***************************************************************************)
(* keysmash: the typing-session engine of src/main.go.                     *)
(*                                                                         *)
(* Go strings are byte sequences: len(s), s[i] and s[:n] count and index   *)
(* bytes, string(r) is the UTF-8 encoding of the rune r.  Strings are      *)
(* modelled as sequences of bytes (0..255) and runes as code points, so    *)
(* that the difference between bytes and code points is part of the model. *)
(***************************************************************************)
EXTENDS Integers, Sequences, FiniteSets, TLC

VARIABLES
    pc,          \* where main is blocked: "welcome", "typing", "post", "error", "exit"
    state,       \* the TestState of the current loop iteration of main
    testResult,  \* the TestState value returned by runTypingTest
    now,         \* the clock read by time.Now()
    screenSize,  \* <<width, height>> answered by screen.Size()
    history,     \* the key events consumed by runTypingTest in this attempt
    args,        \* the arguments of the wrapText or renderScreen call under study
    result       \* what that call computed

vars == <<pc, state, testResult, now, screenSize, history, args, result>>

\* The variables of the calls studied on their own; the session leaves them alone.
pure == <<args, result>>

----------------------------------------------------------------------------
(* Bounds of the model.                                                    *)

\* Key events (rune, Enter, Backspace) explored per attempt.
MaxKeys == 5
\* Last tick of the clock.
MaxTime == 2

----------------------------------------------------------------------------
(* Runes and strings.                                                      *)

\* The code points used by the texts and the keyboard of the model.
\* eacute is U+00E9 (bytes C3 A9), yus is U+0469 (bytes D1 A9).
\* acute is the combining U+0301 (width 0), shi is U+4E16 (width 2).
Rune == [a |-> 97, b |-> 98, c |-> 99, t |-> 116, x |-> 120,
         eacute |-> 233, yus |-> 1129, space |-> 32,
         acute |-> 769, shi |-> 19990]

\* '\n'
NL == 10

\* unicode.ReplacementChar, what a byte that is no valid UTF-8 decodes to.
RuneError == 65533

Min(i, j) == IF i <= j THEN i ELSE j
Max(i, j) == IF i >= j THEN i ELSE j

\* string(r): the UTF-8 encoding of a rune (1 to 3 bytes).
UTF8(r) ==
    IF r < 128 THEN <<r>>
    ELSE IF r < 2048 THEN <<192 + (r \div 64), 128 + (r % 64)>>
    ELSE <<224 + (r \div 4096), 128 + ((r \div 64) % 64), 128 + (r % 64)>>

\* The Go string holding the runes rs.
RECURSIVE Encode(_)
Encode(rs) == IF rs = <<>> THEN <<>> ELSE UTF8(Head(rs)) \o Encode(Tail(rs))

IsCont(b) == b >= 128 /\ b <= 191

\* utf8.DecodeRuneInString at the head of a non-empty s: <<rune, size>>.
DecodeRune(s) ==
    LET b1 == s[1] IN
    IF b1 < 128 THEN <<b1, 1>>
    ELSE IF b1 >= 194 /\ b1 <= 223 /\ Len(s) >= 2 /\ IsCont(s[2])
         THEN <<(b1 - 192) * 64 + (s[2] - 128), 2>>
    ELSE IF b1 >= 224 /\ b1 <= 239 /\ Len(s) >= 3 /\ IsCont(s[2]) /\ IsCont(s[3])
            /\ (b1 = 224 => s[2] >= 160) /\ (b1 = 237 => s[2] <= 159)
         THEN <<(b1 - 224) * 4096 + (s[2] - 128) * 64 + (s[3] - 128), 3>>
    ELSE <<RuneError, 1>>

\* []rune(s): the code points of a Go string, an invalid byte giving RuneError.
RECURSIVE Runes(_)
Runes(s) ==
    IF s = <<>> THEN <<>>
    ELSE LET d == DecodeRune(s)
         IN <<d[1]>> \o Runes(SubSeq(s, d[2] + 1, Len(s)))

\* The bytes strings.TrimSpace removes (the ASCII white space).
IsSpace(b) == b \in {9, 10, 11, 12, 13, 32}

RECURSIVE TrimLeft(_)
TrimLeft(s) ==
    IF s # <<>> /\ IsSpace(s[1]) THEN TrimLeft(Tail(s)) ELSE s

RECURSIVE TrimRight(_)
TrimRight(s) ==
    IF s # <<>> /\ IsSpace(s[Len(s)]) THEN TrimRight(SubSeq(s, 1, Len(s) - 1)) ELSE s

\* strings.TrimSpace
TrimSpace(s) == TrimRight(TrimLeft(s))

----------------------------------------------------------------------------
(* The environment: the tests directory, the keyboard, the terminal.       *)

\* The .txt files of the tests directory: file name |-> content.
TestFiles ==
    [ab      |-> Encode(<<Rune.a, Rune.b, NL>>),
     cat     |-> Encode(<<Rune.c, Rune.a, Rune.t>>),
     accent  |-> Encode(<<Rune.eacute, Rune.a>>),
     lines   |-> Encode(<<Rune.a, NL, Rune.b>>),
     verse   |-> Encode(<<Rune.eacute, NL, Rune.a>>),
     blank   |-> Encode(<<Rune.space, NL>>)]

\* The runes the user types while a file is the test (ev.Rune() of a
\* tcell.KeyRune event); Enter and Backspace are keys of their own.
Keyboard ==
    [ab      |-> {Rune.a, Rune.b, Rune.c},
     cat     |-> {Rune.c, Rune.a, Rune.t, Rune.x},
     accent  |-> {Rune.a, Rune.eacute, Rune.yus},
     lines   |-> {Rune.a, Rune.b},
     verse   |-> {Rune.a},
     blank   |-> {Rune.a}]

\* The terminal sizes a resize switches between.
ScreenSizes == {<<80, 24>>, <<40, 15>>}

\* The size of the terminal when the program starts.
InitialSize == <<80, 24>>

\* No call is under study.
NoCall == [fn |-> "none"]

\* The zero time.Time of a fresh TestState.
ZeroTime == 0

----------------------------------------------------------------------------
(* TestState and the key events.                                           *)

\* TestState{} : the zero value.
ZeroState ==
    [referenceText |-> <<>>, userInput |-> <<>>, errors |-> 0,
     startTime |-> ZeroTime, endTime |-> ZeroTime,
     testStarted |-> FALSE, testComplete |-> FALSE, testFile |-> ""]

\* The TestState selectRandomTest returns for the file f.
NewTest(f) ==
    [referenceText |-> TrimSpace(TestFiles[f]), userInput |-> <<>>, errors |-> 0,
     startTime |-> ZeroTime, endTime |-> ZeroTime,
     testStarted |-> FALSE, testComplete |-> FALSE, testFile |-> f]

KeyRuneEv(r)   == [key |-> "Rune", ch |-> r]
KeyEnterEv     == [key |-> "Enter", ch |-> 13]
KeyBackspaceEv == [key |-> "Backspace", ch |-> 127]

\* Mutant of StartIfNeeded: the guard on testStarted is lost, every key
\* restarts the clock.
StartAlways(s) == [s EXCEPT !.testStarted = TRUE, !.startTime = now]

\* if !state.testStarted { testStarted = true; startTime = time.Now() }
StartIfNeeded(s) ==
    IF ~s.testStarted THEN [s EXCEPT !.testStarted = TRUE, !.startTime = now] ELSE s

\* Mutant of RuneIsError: the else branch (input longer than the reference)
\* is lost.
RuneIsErrorNoOverflow(u, ref) ==
    IF Len(u) <= Len(ref) THEN u[Len(u)] # ref[Len(u)] ELSE FALSE

\* The error check after a rune was appended: u is the input after the append.
RuneIsError(u, ref) ==
    IF Len(u) <= Len(ref) THEN u[Len(u)] # ref[Len(u)] ELSE TRUE

\* The error check after Enter appended a newline.
NewlineIsError(u, ref) ==
    IF Len(u) <= Len(ref) THEN ref[Len(u)] # NL ELSE TRUE

\* Mutant of IsComplete: only the lengths are compared.
IsCompleteLengthOnly(u, ref) == Len(u) = Len(ref)

\* The completion test of the rune branch.
IsComplete(u, ref) == Len(u) = Len(ref) /\ u = ref

\* Mutant of DropLast: the slice bound is off by one, nothing is removed.
DropLastOffByOne(u) == SubSeq(u, 1, Len(u))

\* state.userInput[:len(state.userInput)-1]
DropLast(u) == SubSeq(u, 1, Len(u) - 1)

----------------------------------------------------------------------------
(* main, before a test runs.                                               *)

\* main returns: its locals (state, testResult) are gone.
Discard ==
    /\ state' = ZeroState
    /\ testResult' = ZeroState
    /\ history' = <<>>

Init ==
    /\ pc = "welcome"
    /\ state = ZeroState
    /\ testResult = ZeroState
    /\ now = 1
    /\ screenSize = InitialSize
    /\ history = <<>>
    /\ args = NoCall
    /\ result = NoCall

\* waitForKey on the welcome screen returns true and selectRandomTest
\* succeeds: runTypingTest starts on a fresh TestState.
WelcomeKey ==
    /\ pc = "welcome"
    /\ \E f \in DOMAIN TestFiles : state' = NewTest(f)
    /\ testResult' = ZeroState
    /\ history' = <<>>
    /\ pc' = "typing"
    /\ UNCHANGED <<now, screenSize>>
    /\ UNCHANGED pure

\* selectRandomTest fails (os.ReadDir or os.ReadFile): drawError.
WelcomeLoadError ==
    /\ pc = "welcome"
    /\ state' = ZeroState
    /\ testResult' = ZeroState
    /\ history' = <<>>
    /\ pc' = "error"
    /\ UNCHANGED <<now, screenSize>>
    /\ UNCHANGED pure

\* Escape on the welcome screen: main returns.
WelcomeEscape ==
    /\ pc = "welcome"
    /\ pc' = "exit"
    /\ Discard
    /\ UNCHANGED <<now, screenSize>>
    /\ UNCHANGED pure

\* A key on the error screen: continue with the next loop iteration.
ErrorKey ==
    /\ pc = "error"
    /\ pc' = "welcome"
    /\ UNCHANGED <<state, testResult, now, screenSize, history>>
    /\ UNCHANGED pure

\* Escape on the error screen: main returns.
ErrorEscape ==
    /\ pc = "error"
    /\ pc' = "exit"
    /\ Discard
    /\ UNCHANGED <<now, screenSize>>
    /\ UNCHANGED pure

----------------------------------------------------------------------------
(* runTypingTest: one action per event of the loop.                        *)

\* Mutant of Resize: the resize starts the attempt over.
ResizeRestarts ==
    /\ pc = "typing"
    /\ \E sz \in ScreenSizes : sz # screenSize /\ screenSize' = sz
    /\ state' = [state EXCEPT !.userInput = <<>>, !.errors = 0,
                              !.testStarted = FALSE]
    /\ UNCHANGED <<pc, testResult, now, history>>
    /\ UNCHANGED pure

\* *tcell.EventResize: screen.Sync(); width, _ = screen.Size()
Resize ==
    /\ pc = "typing"
    /\ \E sz \in ScreenSizes : sz # screenSize /\ screenSize' = sz
    /\ UNCHANGED <<pc, state, testResult, now, history>>
    /\ UNCHANGED pure

\* Mutant of KeyEscape: the cancel stamps endTime like a completion does.
KeyEscapeStampsEnd ==
    /\ pc = "typing"
    /\ state' = [state EXCEPT !.endTime = now]
    /\ testResult' = state'
    /\ pc' = "welcome"
    /\ UNCHANGED <<now, screenSize, history>>
    /\ UNCHANGED pure

\* tcell.KeyEscape: return *state; handlePostTest then returns true at once
\* (the test is not complete) and main loops to the welcome screen.
KeyEscape ==
    /\ pc = "typing"
    /\ testResult' = state
    /\ pc' = "welcome"
    /\ UNCHANGED <<state, now, screenSize, history>>
    /\ UNCHANGED pure

\* Mutant of KeyBackspace: emptying the input puts the session back to
\* not started.
KeyBackspaceResetsStart ==
    /\ pc = "typing"
    /\ Len(history) < MaxKeys
    /\ history' = Append(history, KeyBackspaceEv)
    /\ state' = IF Len(state.userInput) > 0
                THEN [state EXCEPT
                        !.userInput = DropLast(@),
                        !.testStarted = Len(state.userInput) > 1]
                ELSE state
    /\ UNCHANGED <<pc, testResult, now, screenSize>>
    /\ UNCHANGED pure

\* Mutant of KeyBackspace: removing a mismatching byte takes its error back.
KeyBackspaceUndoError ==
    /\ pc = "typing"
    /\ Len(history) < MaxKeys
    /\ history' = Append(history, KeyBackspaceEv)
    /\ state' = IF Len(state.userInput) > 0
                THEN [state EXCEPT
                        !.userInput = DropLast(@),
                        !.errors = IF RuneIsError(state.userInput, state.referenceText)
                                      /\ @ > 0
                                   THEN @ - 1 ELSE @]
                ELSE state
    /\ UNCHANGED <<pc, testResult, now, screenSize>>
    /\ UNCHANGED pure

\* tcell.KeyBackspace, tcell.KeyBackspace2
KeyBackspace ==
    /\ pc = "typing"
    /\ Len(history) < MaxKeys
    /\ history' = Append(history, KeyBackspaceEv)
    /\ state' = IF Len(state.userInput) > 0
                THEN [state EXCEPT !.userInput = DropLast(@)]
                ELSE state
    /\ UNCHANGED <<pc, testResult, now, screenSize>>
    /\ UNCHANGED pure

\* tcell.KeyEnter
KeyEnter ==
    /\ pc = "typing"
    /\ Len(history) < MaxKeys
    /\ history' = Append(history, KeyEnterEv)
    /\ LET s1 == StartIfNeeded(state)
           s2 == [s1 EXCEPT !.userInput = @ \o <<NL>>]
       IN state' = [s2 EXCEPT !.errors =
                        IF NewlineIsError(s2.userInput, s2.referenceText)
                        THEN @ + 1 ELSE @]
    /\ UNCHANGED <<pc, testResult, now, screenSize>>
    /\ UNCHANGED pure

\* Mutant of KeyRune: the return after completion is lost, the loop goes on.
KeyRuneNoReturn(r) ==
    /\ pc = "typing"
    /\ Len(history) < MaxKeys
    /\ r # 0
    /\ history' = Append(history, KeyRuneEv(r))
    /\ LET s1 == StartIfNeeded(state)
           s2 == [s1 EXCEPT !.userInput = @ \o UTF8(r)]
           s3 == [s2 EXCEPT !.errors =
                        IF RuneIsError(s2.userInput, s2.referenceText)
                        THEN @ + 1 ELSE @]
       IN IF IsComplete(s3.userInput, s3.referenceText)
          THEN state' = [s3 EXCEPT !.testComplete = TRUE, !.endTime = now]
          ELSE state' = s3
    /\ UNCHANGED <<pc, testResult, now, screenSize>>
    /\ UNCHANGED pure

\* A key with ev.Rune() = r, r != 0.
KeyRune(r) ==
    /\ pc = "typing"
    /\ Len(history) < MaxKeys
    /\ r # 0
    /\ history' = Append(history, KeyRuneEv(r))
    /\ LET s1 == StartIfNeeded(state)
           s2 == [s1 EXCEPT !.userInput = @ \o UTF8(r)]
           s3 == [s2 EXCEPT !.errors =
                        IF RuneIsError(s2.userInput, s2.referenceText)
                        THEN @ + 1 ELSE @]
       IN IF IsComplete(s3.userInput, s3.referenceText)
          THEN /\ state' = [s3 EXCEPT !.testComplete = TRUE, !.endTime = now]
               /\ testResult' = state'
               /\ pc' = "post"
          ELSE /\ state' = s3
               /\ UNCHANGED <<pc, testResult>>
    /\ UNCHANGED <<now, screenSize>>
    /\ UNCHANGED pure

TypeRune ==
    /\ pc = "typing"
    /\ \E r \in Keyboard[state.testFile] : KeyRune(r)

----------------------------------------------------------------------------
(* handlePostTest on a completed test.                                     *)

\* 'R', 'r': reset the original state and return true.
PostRetry ==
    /\ pc = "post"
    /\ state' = [state EXCEPT !.userInput = <<>>, !.errors = 0,
                              !.testStarted = FALSE, !.testComplete = FALSE]
    /\ history' = <<>>
    /\ pc' = "welcome"
    /\ UNCHANGED <<testResult, now, screenSize>>
    /\ UNCHANGED pure

\* 'N', 'n': return true.
PostNew ==
    /\ pc = "post"
    /\ pc' = "welcome"
    /\ UNCHANGED <<state, testResult, now, screenSize, history>>
    /\ UNCHANGED pure

\* 'Q', 'q', Escape: return false, main breaks out of its loop.
PostQuit ==
    /\ pc = "post"
    /\ pc' = "exit"
    /\ Discard
    /\ UNCHANGED <<now, screenSize>>
    /\ UNCHANGED pure

\* Time passes while main is blocked in PollEvent.
Tick ==
    /\ pc # "exit"
    /\ now < MaxTime
    /\ now' = now + 1
    /\ UNCHANGED <<pc, state, testResult, screenSize, history>>
    /\ UNCHANGED pure

Next ==
    \/ WelcomeKey
    \/ WelcomeLoadError
    \/ WelcomeEscape
    \/ ErrorKey
    \/ ErrorEscape
    \/ Resize
    \/ KeyEscape
    \/ KeyBackspace
    \/ KeyEnter
    \/ TypeRune
    \/ PostRetry
    \/ PostNew
    \/ PostQuit
    \/ Tick

Spec == Init /\ [][Next]_vars

----------------------------------------------------------------------------
(* wrapText.                                                               *)

\* runewidth.RuneWidth: 0 for control characters and combining marks, 2 for
\* East Asian wide characters, 1 otherwise.
RuneWidth(r) ==
    IF r < 32 \/ (r >= 127 /\ r < 160) THEN 0
    ELSE IF r >= 768 /\ r <= 879 THEN 0
    ELSE IF \/ (r >= 4352 /\ r <= 4447)
            \/ (r >= 11904 /\ r <= 42191)
            \/ (r >= 44032 /\ r <= 55203)
            \/ (r >= 63744 /\ r <= 64255)
            \/ (r >= 65280 /\ r <= 65376)
         THEN 2
    ELSE 1

RECURSIVE RunesWidth(_)
RunesWidth(rs) ==
    IF rs = <<>> THEN 0 ELSE RuneWidth(Head(rs)) + RunesWidth(Tail(rs))

\* runewidth.StringWidth
StringWidth(s) == RunesWidth(Runes(s))

\* strings.Split(s, sep) for a one-byte separator: cur is the piece being
\* read, which ends at the first separator of s.
RECURSIVE SplitOn(_, _, _)
SplitOn(s, sep, cur) ==
    IF \A i \in 1..Len(s) : s[i] # sep THEN <<cur \o s>>
    ELSE LET first == CHOOSE i \in 1..Len(s) :
                        s[i] = sep /\ \A j \in 1..(i - 1) : s[j] # sep
         IN <<cur \o SubSeq(s, 1, first - 1)>>
                \o SplitOn(SubSeq(s, first + 1, Len(s)), sep, <<>>)

\* strings.Fields(s): the maximal pieces of s free of white space.
RECURSIVE FieldsFrom(_, _)
FieldsFrom(s, cur) ==
    IF s = <<>> THEN (IF cur = <<>> THEN <<>> ELSE <<cur>>)
    ELSE IF IsSpace(Head(s))
         THEN (IF cur = <<>> THEN <<>> ELSE <<cur>>) \o FieldsFrom(Tail(s), <<>>)
    ELSE FieldsFrom(Tail(s), Append(cur, Head(s)))

Fields(s) == FieldsFrom(s, <<>>)

\* Mutant of SplitOverflows: the width of the glyph is taken to be 1.
SplitOverflowsNarrow(lineWidth, charWidth, width) == lineWidth + 1 > width

\* Mutant of SplitOverflows: a piece is emitted one glyph before it is full.
SplitOverflowsEarly(lineWidth, charWidth, width) == lineWidth + charWidth >= width

\* if lineWidth+charWidth > width
SplitOverflows(lineWidth, charWidth, width) == lineWidth + charWidth > width

\* Mutant of SplitWord: the glyph that does not fit is lost with the piece
\* that is emitted.
RECURSIVE SplitWordDropsRune(_, _, _)
SplitWordDropsRune(runes, width, w) ==
    IF runes = <<>> THEN w
    ELSE LET r == Head(runes)
             charWidth == RuneWidth(r)
         IN IF SplitOverflows(w.lineWidth, charWidth, width)
            THEN SplitWordDropsRune(Tail(runes), width,
                    [lines |-> Append(w.lines, Encode(w.lineRunes)),
                     lineRunes |-> <<>>, lineWidth |-> 0])
            ELSE SplitWordDropsRune(Tail(runes), width,
                    [lines |-> w.lines,
                     lineRunes |-> Append(w.lineRunes, r),
                     lineWidth |-> w.lineWidth + charWidth])

\* The loop that splits a word wider than the line: w is
\* [lines, lineRunes, lineWidth].
RECURSIVE SplitWord(_, _, _)
SplitWord(runes, width, w) ==
    IF runes = <<>> THEN w
    ELSE LET r == Head(runes)
             charWidth == RuneWidth(r)
         IN IF SplitOverflows(w.lineWidth, charWidth, width)
            THEN SplitWord(Tail(runes), width,
                    [lines |-> Append(w.lines, Encode(w.lineRunes)),
                     lineRunes |-> <<r>>, lineWidth |-> charWidth])
            ELSE SplitWord(Tail(runes), width,
                    [lines |-> w.lines,
                     lineRunes |-> Append(w.lineRunes, r),
                     lineWidth |-> w.lineWidth + charWidth])

\* One turn of the loop over the words of a paragraph: p is
\* [lines, currentLine, currentWidth].
PlaceWord(word, width, p) ==
    LET wordWidth == StringWidth(word) IN
    IF wordWidth > width
    THEN LET flushed == IF p.currentLine # <<>>
                        THEN [lines |-> Append(p.lines, p.currentLine),
                              currentLine |-> <<>>, currentWidth |-> 0]
                        ELSE p
             w == SplitWord(Runes(word), width,
                    [lines |-> flushed.lines, lineRunes |-> <<>>, lineWidth |-> 0])
         IN IF Len(w.lineRunes) > 0
            THEN [lines |-> w.lines, currentLine |-> Encode(w.lineRunes),
                  currentWidth |-> w.lineWidth]
            ELSE [lines |-> w.lines, currentLine |-> flushed.currentLine,
                  currentWidth |-> flushed.currentWidth]
    ELSE LET spaceNeeded == IF p.currentWidth > 0 THEN 1 ELSE 0 IN
         IF p.currentWidth + spaceNeeded + wordWidth <= width
         THEN [lines |-> p.lines,
               currentLine |-> (IF p.currentWidth > 0
                                THEN p.currentLine \o <<Rune.space>>
                                ELSE p.currentLine) \o word,
               currentWidth |-> p.currentWidth + spaceNeeded + wordWidth]
         ELSE [lines |-> Append(p.lines, p.currentLine),
               currentLine |-> word, currentWidth |-> wordWidth]

RECURSIVE PlaceWords(_, _, _)
PlaceWords(words, width, p) ==
    IF words = <<>> THEN p
    ELSE PlaceWords(Tail(words), width, PlaceWord(Head(words), width, p))

\* Mutant of WrapParagraph: a paragraph of white space only yields no line.
WrapParagraphSkipsBlank(paragraph, width, lines) ==
    IF paragraph = <<>> THEN Append(lines, <<>>)
    ELSE LET words == Fields(paragraph) IN
         IF Len(words) = 0 THEN lines
         ELSE LET p == PlaceWords(words, width,
                        [lines |-> lines, currentLine |-> <<>>, currentWidth |-> 0])
              IN IF p.currentLine # <<>> THEN Append(p.lines, p.currentLine)
                 ELSE p.lines

\* The body of the loop over the paragraphs: the lines after the paragraph.
WrapParagraph(paragraph, width, lines) ==
    IF paragraph = <<>> THEN Append(lines, <<>>)
    ELSE LET words == Fields(paragraph) IN
         IF Len(words) = 0 THEN Append(lines, <<>>)
         ELSE LET p == PlaceWords(words, width,
                        [lines |-> lines, currentLine |-> <<>>, currentWidth |-> 0])
              IN IF p.currentLine # <<>> THEN Append(p.lines, p.currentLine)
                 ELSE p.lines

RECURSIVE WrapParagraphs(_, _, _)
WrapParagraphs(paragraphs, width, lines) ==
    IF paragraphs = <<>> THEN lines
    ELSE WrapParagraphs(Tail(paragraphs), width,
                        WrapParagraph(Head(paragraphs), width, lines))

\* wrapText(text, width): the sequence of lines.
wrapText(text, width) == WrapParagraphs(SplitOn(text, NL, <<>>), width, <<>>)

----------------------------------------------------------------------------
(* wrapText studied on its own: every text up to MaxWrapLen runes over     *)
(* WrapAlphabet, every width up to MaxWrapWidth.                           *)

MaxWrapLen == 4
MaxWrapWidth == 3

WrapAlphabet == {Rune.a, Rune.b, Rune.space, NL, Rune.shi, Rune.acute}

SeqsUpTo(S, n) == UNION {[1..k -> S] : k \in 0..n}

\* The session is not running while a call is studied on its own.
Idle ==
    /\ pc = "exit"
    /\ state = ZeroState
    /\ testResult = ZeroState
    /\ now = 1
    /\ screenSize = InitialSize
    /\ history = <<>>

InitWrap ==
    /\ Idle
    /\ \E rs \in SeqsUpTo(WrapAlphabet, MaxWrapLen), w \in 1..MaxWrapWidth :
            args = [fn |-> "wrapText", text |-> Encode(rs), width |-> w]
    /\ result = NoCall

\* lines := wrapText(text, width)
CallWrapText ==
    /\ args.fn = "wrapText"
    /\ result = NoCall
    /\ result' = [fn |-> "wrapText", lines |-> wrapText(args.text, args.width)]
    /\ UNCHANGED <<pc, state, testResult, now, screenSize, history, args>>

NextWrap == CallWrapText

SpecWrap == InitWrap /\ [][NextWrap]_vars

----------------------------------------------------------------------------
(* wrapText on the cases of TestWrapText, the texts given byte by byte.    *)

\* Normal paragraph: "This is a test of the word wrapping function. It
\* should wrap at word boundaries."
NormalText ==
    <<84, 104, 105, 115, 32, 105, 115, 32, 97, 32, 116, 101, 115, 116, 32,
      111, 102, 32, 116, 104, 101, 32, 119, 111, 114, 100, 32, 119, 114, 97,
      112, 112, 105, 110, 103, 32, 102, 117, 110, 99, 116, 105, 111, 110,
      46, 32, 73, 116, 32, 115, 104, 111, 117, 108, 100, 32, 119, 114, 97,
      112, 32, 97, 116, 32, 119, 111, 114, 100, 32, 98, 111, 117, 110, 100,
      97, 114, 105, 101, 115, 46>>

\* expected: "This is a test of", "the word wrapping",
\* "function. It should", "wrap at word", "boundaries."
NormalExpected ==
    <<<<84, 104, 105, 115, 32, 105, 115, 32, 97, 32, 116, 101, 115, 116, 32,
        111, 102>>,
      <<116, 104, 101, 32, 119, 111, 114, 100, 32, 119, 114, 97, 112, 112,
        105, 110, 103>>,
      <<102, 117, 110, 99, 116, 105, 111, 110, 46, 32, 73, 116, 32, 115,
        104, 111, 117, 108, 100>>,
      <<119, 114, 97, 112, 32, 97, 116, 32, 119, 111, 114, 100>>,
      <<98, 111, 117, 110, 100, 97, 114, 105, 101, 115, 46>>>>

\* Long word: "This contains a
\* verylongwordthatwillneedtobesplitacrossmultiplelines because it's too
\* long."
LongWordText ==
    <<84, 104, 105, 115, 32, 99, 111, 110, 116, 97, 105, 110, 115, 32, 97,
      32, 118, 101, 114, 121, 108, 111, 110, 103, 119, 111, 114, 100, 116,
      104, 97, 116, 119, 105, 108, 108, 110, 101, 101, 100, 116, 111, 98,
      101, 115, 112, 108, 105, 116, 97, 99, 114, 111, 115, 115, 109, 117,
      108, 116, 105, 112, 108, 101, 108, 105, 110, 101, 115, 32, 98, 101,
      99, 97, 117, 115, 101, 32, 105, 116, 39, 115, 32, 116, 111, 111, 32,
      108, 111, 110, 103, 46>>

\* expected: "This contains a", "verylongwordthatwil",
\* "lneedtobesplitacros", "smultiplelines", "because it's too", "long."
LongWordExpected ==
    <<<<84, 104, 105, 115, 32, 99, 111, 110, 116, 97, 105, 110, 115, 32, 97>>,
      <<118, 101, 114, 121, 108, 111, 110, 103, 119, 111, 114, 100, 116,
        104, 97, 116, 119, 105, 108>>,
      <<108, 110, 101, 101, 100, 116, 111, 98, 101, 115, 112, 108, 105, 116,
        97, 99, 114, 111, 115>>,
      <<115, 109, 117, 108, 116, 105, 112, 108, 101, 108, 105, 110, 101, 115>>,
      <<98, 101, 99, 97, 117, 115, 101, 32, 105, 116, 39, 115, 32, 116, 111,
        111>>,
      <<108, 111, 110, 103, 46>>>>

\* Text with newlines: "This has\na newline\nin it."
NewlinesText ==
    <<84, 104, 105, 115, 32, 104, 97, 115, 10, 97, 32, 110, 101, 119, 108,
      105, 110, 101, 10, 105, 110, 32, 105, 116, 46>>

\* expected: "This has", "a newline", "in it."
NewlinesExpected ==
    <<<<84, 104, 105, 115, 32, 104, 97, 115>>,
      <<97, 32, 110, 101, 119, 108, 105, 110, 101>>,
      <<105, 110, 32, 105, 116, 46>>>>

\* Empty string: ""
EmptyText ==
    <<>>

\* expected: []string{}
EmptyExpected == <<>>

\* Single character: "x"
SingleText ==
    <<120>>

\* expected: "x"
SingleExpected ==
    <<<<120>>>>

\* The width every case is wrapped at.
TestWidth == 20

TestCases ==
    <<[name |-> "Normal paragraph", text |-> NormalText, width |-> TestWidth,
       expected |-> NormalExpected],
      [name |-> "Long word", text |-> LongWordText, width |-> TestWidth,
       expected |-> LongWordExpected],
      [name |-> "Text with newlines", text |-> NewlinesText, width |-> TestWidth,
       expected |-> NewlinesExpected],
      [name |-> "Empty string", text |-> EmptyText, width |-> TestWidth,
       expected |-> EmptyExpected],
      [name |-> "Single character", text |-> SingleText, width |-> TestWidth,
       expected |-> SingleExpected]>>

\* The widest line the cases are wrapped at.
MaxTestWidth == 30

\* The cases are wrapped at the width of the test and at the widths about it.
TestWidths == (TestWidth \div 2)..MaxTestWidth

InitWrapTests ==
    /\ Idle
    /\ \E tc \in 1..Len(TestCases), w \in TestWidths :
            args = [fn |-> "wrapText", text |-> TestCases[tc].text, width |-> w]
    /\ result = NoCall

SpecWrapTests == InitWrapTests /\ [][NextWrap]_vars

----------------------------------------------------------------------------
(* renderScreen: the layout of one frame.                                  *)

RECURSIVE GCD(_, _)
GCD(i, j) == IF j = 0 THEN i ELSE GCD(j, i % j)

IsPowerOfTwo(n) == \E k \in 0..30 : n = 2^k

\* int(refProgress * float64(len(refLines))) with refProgress =
\* float64(a)/float64(b): a*n \div b when the quotient a/b is a binary
\* fraction or a*n/b is not a whole number; when a*n/b is a whole number and
\* a/b was rounded, the product may fall just below it and is truncated to
\* the number before.
RefMidpoints(a, b, n) ==
    IF b = 0 THEN {0}
    ELSE LET exact == (a * n) \div b IN
         IF (a * n) % b = 0 /\ exact >= 1 /\ ~IsPowerOfTwo(b \div GCD(a, b))
         THEN {exact, exact - 1}
         ELSE {exact}

\* int(completionPct*100) of the stats line, completionPct being
\* float64(a)/float64(b) capped at 1.0: the same float product as
\* RefMidpoints. (a = b = 0 is NaN, whose conversion depends on the
\* platform; no frame of the model has it.)
CompletionPcts(a, b) ==
    IF a > b THEN {100} ELSE RefMidpoints(a, b, 100)

\* Mutant of Margins: every screen gets the heights of the large layout.
MarginsAlwaysFull(screenHeight) ==
    [topMargin |-> 4, statsHeight |-> 3, refHeaderHeight |-> 2,
     bottomMargin |-> 3, inputHeaderHeight |-> 2]

\* The heights of the adaptive layout for a screen of screenHeight rows.
\* Mutant of Margins: one row only is kept below the content.
MarginsThinBottom(screenHeight) ==
    IF screenHeight >= 24
    THEN [topMargin |-> 4, statsHeight |-> 3, refHeaderHeight |-> 2,
          bottomMargin |-> 1, inputHeaderHeight |-> 2]
    ELSE IF screenHeight >= 18
    THEN [topMargin |-> 2, statsHeight |-> 2, refHeaderHeight |-> 1,
          bottomMargin |-> 1, inputHeaderHeight |-> 1]
    ELSE [topMargin |-> 1, statsHeight |-> 1, refHeaderHeight |-> 1,
          bottomMargin |-> 1, inputHeaderHeight |-> 1]

Margins(screenHeight) ==
    IF screenHeight >= 24
    THEN [topMargin |-> 4, statsHeight |-> 3, refHeaderHeight |-> 2,
          bottomMargin |-> 3, inputHeaderHeight |-> 2]
    ELSE IF screenHeight >= 18
    THEN [topMargin |-> 2, statsHeight |-> 2, refHeaderHeight |-> 1,
          bottomMargin |-> 2, inputHeaderHeight |-> 1]
    ELSE [topMargin |-> 1, statsHeight |-> 1, refHeaderHeight |-> 1,
          bottomMargin |-> 2, inputHeaderHeight |-> 1]

\* renderMinimalScreen was drawn instead of the layout.
MinimalFrame == [fn |-> "renderScreen", minimal |-> TRUE]

\* Mutant of RefWindow: the adjustment near the end is lost.
RefWindowNoEndAdjust(n, refSectionHeight, refMidpoint) ==
    LET start == Max(0, refMidpoint - (refSectionHeight \div 2))
    IN [refStartLine |-> start, refEndLine |-> start + refSectionHeight]

\* Mutant of RefWindow: near the end the window goes back to the first lines.
RefWindowRestarts(n, refSectionHeight, refMidpoint) ==
    LET start == Max(0, refMidpoint - (refSectionHeight \div 2))
        end   == Min(n, start + refSectionHeight)
    IN IF end >= n
       THEN [refStartLine |-> 0, refEndLine |-> Min(n, refSectionHeight)]
       ELSE [refStartLine |-> start, refEndLine |-> end]

\* refStartLine and refEndLine when len(refLines) = n > refSectionHeight.
RefWindow(n, refSectionHeight, refMidpoint) ==
    LET start == Max(0, refMidpoint - (refSectionHeight \div 2))
        end   == Min(n, start + refSectionHeight)
    IN IF end >= n
       THEN [refStartLine |-> Max(0, n - refSectionHeight), refEndLine |-> n]
       ELSE [refStartLine |-> start, refEndLine |-> end]

\* Mutant of InputWindow: the window never scrolls.
InputWindowNoScroll(n, inputSectionHeight, cursorLine) ==
    [inputStartLine |-> 0, inputEndLine |-> Min(n, inputSectionHeight)]

\* inputStartLine and inputEndLine when len(inputLines) = n > 0.
InputWindow(n, inputSectionHeight, cursorLine) ==
    LET start == IF cursorLine >= inputSectionHeight
                 THEN Max(0, cursorLine - (inputSectionHeight - 1))
                 ELSE 0
    IN [inputStartLine |-> start,
        inputEndLine |-> Min(n, start + inputSectionHeight)]

\* cursorPos and cursorLine.
CursorOf(inputLines) ==
    IF Len(inputLines) > 0
    THEN [cursorPos |-> StringWidth(inputLines[Len(inputLines)]),
          cursorLine |-> Len(inputLines) - 1]
    ELSE [cursorPos |-> 0, cursorLine |-> 0]

\* renderScreen(screen, state, width) on a screen of size sz, the float
\* product of the reference scroll truncated to refMidpoint and that of the
\* stats line to completionPct: what the frame holds. fault: strings.Repeat
\* panics on a negative count.
renderScreen(st, sz, refMidpoint, completionPct) ==
    LET width == sz[1]
        screenHeight == sz[2]
    IN
    IF width < 40 \/ screenHeight < 15 THEN MinimalFrame
    ELSE
    LET hPadding == Min(4, width \div 10)
        contentWidth == Max(20, width - (hPadding * 2))
        refLines == wrapText(st.referenceText, contentWidth)
        inputLines == IF Len(st.userInput) > 0
                      THEN wrapText(st.userInput, contentWidth) ELSE <<>>
        cursor == CursorOf(inputLines)
        m == Margins(screenHeight)
        contentStartY == m.topMargin + m.statsHeight + 1
        contentEndY == screenHeight - m.bottomMargin
        contentHeight == contentEndY - contentStartY
    IN
    IF contentHeight < 4 THEN MinimalFrame
    ELSE
    LET refSectionHeight == Max(2, contentHeight \div 3)
        inputSectionHeight ==
            Max(2, contentHeight - refSectionHeight - m.refHeaderHeight
                       - m.inputHeaderHeight - 1)
        refTextStartY == contentStartY + m.refHeaderHeight
        refScrolls == refSectionHeight > 0 /\ Len(refLines) > refSectionHeight
        refWin == IF refScrolls
                  THEN RefWindow(Len(refLines), refSectionHeight, refMidpoint)
                  ELSE [refStartLine |-> 0,
                        refEndLine |-> Min(Len(refLines), refSectionHeight)]
        separatorY == refTextStartY + refSectionHeight
        inputLabelY == separatorY + 1
        inputStartY == inputLabelY + m.inputHeaderHeight
        inputShown == inputSectionHeight > 0 /\ inputStartY < screenHeight - 1
        inWin == IF Len(inputLines) > 0
                 THEN InputWindow(Len(inputLines), inputSectionHeight,
                                  cursor.cursorLine)
                 ELSE [inputStartLine |-> 0, inputEndLine |-> 0]
        cursorY == IF Len(inputLines) > 0
                   THEN inputStartY + (cursor.cursorLine - inWin.inputStartLine)
                   ELSE inputStartY
        cursorX == hPadding + cursor.cursorPos
        cursorDrawn == /\ inputShown
                       /\ cursor.cursorLine >= inWin.inputStartLine
                       /\ cursorX < width
                       /\ cursorY < screenHeight - 1
        progress == IF Len(st.referenceText) > 0
                    THEN (Len(st.userInput) * 100) \div Len(st.referenceText)
                    ELSE 0
        progressBarWidth == Min(60, width - (2 * hPadding))
        filledWidth == (progressBarWidth * progress) \div 100
    IN [fn |-> "renderScreen", minimal |-> FALSE,
        statsShown |-> st.testStarted /\ screenHeight >= 18,
        statsPct |-> completionPct,
        refHeaderHeight |-> m.refHeaderHeight,
        inputHeaderHeight |-> m.inputHeaderHeight,
        filledWidth |-> filledWidth,
        hPadding |-> hPadding, contentWidth |-> contentWidth,
        refLines |-> refLines, inputLines |-> inputLines,
        cursorPos |-> cursor.cursorPos, cursorLine |-> cursor.cursorLine,
        contentHeight |-> contentHeight,
        refSectionHeight |-> refSectionHeight,
        inputSectionHeight |-> inputSectionHeight,
        refScrolls |-> refScrolls, refMidpoint |-> refMidpoint,
        refStartLine |-> refWin.refStartLine, refEndLine |-> refWin.refEndLine,
        inputStartY |-> inputStartY, inputShown |-> inputShown,
        inputStartLine |-> inWin.inputStartLine,
        inputEndLine |-> inWin.inputEndLine,
        cursorX |-> cursorX, cursorY |-> cursorY, cursorDrawn |-> cursorDrawn,
        progress |-> progress, progressBarWidth |-> progressBarWidth,
        fault |-> progressBarWidth >= 10 /\ filledWidth > progressBarWidth]

----------------------------------------------------------------------------
(* The cells of a frame that hold the glyphs of the input.                 *)

\* for i, r := range text: the runes of text, each with its byte offset i.
RECURSIVE RangeOf(_, _)
RangeOf(text, i) ==
    IF text = <<>> THEN <<>>
    ELSE LET d == DecodeRune(text)
         IN <<[i |-> i, r |-> d[1]]>>
                \o RangeOf(SubSeq(text, d[2] + 1, Len(text)), i + d[2])

\* drawText(screen, x, y, style, text): the cells set and the glyph of each.
drawText(x, y, text) ==
    LET ranged == RangeOf(text, 0)
    IN {[x |-> x + ranged[k].i, y |-> y, ch |-> ranged[k].r] :
            k \in 1..Len(ranged)}

\* The cells renderScreen sets to draw the visible input lines of the frame
\* on a screen of screenHeight rows.
InputCells(frame, screenHeight) ==
    IF /\ frame.inputShown
       /\ Len(frame.inputLines) > 0
       /\ frame.inputStartLine < frame.inputEndLine
       /\ frame.inputStartLine >= 0
       /\ frame.inputEndLine <= Len(frame.inputLines)
    THEN UNION {drawText(frame.hPadding, frame.inputStartY + i,
                         frame.inputLines[frame.inputStartLine + i + 1]) :
                    i \in {j \in 0..(frame.inputEndLine - frame.inputStartLine - 1) :
                            frame.inputStartY + j < screenHeight - 1}}
    ELSE {}

----------------------------------------------------------------------------
(* renderScreen studied on its own: the frame of a session in which the    *)
(* runes of an input of LayoutInputs were typed, on a screen of            *)
(* LayoutScreens.                                                          *)

\* Longest run of a's that opens an input.
MaxRun == 31
\* Longest run of newlines that opens an input.
MaxLines == 9
\* Most runes typed after the run.
MaxTail == 2

RECURSIVE Repeat(_, _)
Repeat(r, n) == IF n = 0 THEN <<>> ELSE <<r>> \o Repeat(r, n - 1)

RECURSIVE JoinLines(_)
JoinLines(ls) ==
    IF Len(ls) = 1 THEN ls[1] ELSE ls[1] \o <<NL>> \o JoinLines(Tail(ls))

\* ten: 10 lines in 20 bytes; long: 10 lines in 29 bytes; gaps: 23 lines in
\* 23 bytes; short: one line.
LayoutRefs ==
    [ten   |-> JoinLines([i \in 1..10 |->
                            IF i = 10 THEN <<Rune.a, Rune.b>> ELSE <<Rune.a>>]),
     long  |-> JoinLines([i \in 1..10 |-> <<Rune.a, Rune.a>>]),
     gaps  |-> JoinLines([i \in 1..23 |->
                            IF i = 1 THEN <<Rune.a>>
                            ELSE IF i = 23 THEN <<Rune.b>> ELSE <<>>]),
     short |-> <<Rune.a, Rune.b>>]

LayoutAlphabet == {Rune.a, Rune.space, NL, Rune.shi}

\* The longest run of three-byte, double-width runes typed.
MaxWide == 13

\* The runes typed: a run, then a tail; or a run of double-width runes.
LayoutInputs ==
    {Repeat(Rune.a, k) \o tail :
        k \in 0..MaxRun, tail \in SeqsUpTo(LayoutAlphabet, MaxTail)}
    \cup
    {Repeat(NL, k) \o tail :
        k \in 0..MaxLines, tail \in SeqsUpTo(LayoutAlphabet, MaxTail)}
    \cup
    {Repeat(Rune.shi, k) : k \in 0..MaxWide}

LayoutScreens ==
    {<<80, 24>>, <<40, 15>>, <<60, 18>>, <<100, 30>>, <<39, 24>>, <<80, 14>>}

\* The session after the runes rs were typed one by one into the fresh
\* session s (Enter for a newline), none of them completing it.
Typed(s, rs) ==
    LET ref == s.referenceText
        isError(j) ==
            LET u == Encode(SubSeq(rs, 1, j)) IN
            IF rs[j] = NL THEN NewlineIsError(u, ref) ELSE RuneIsError(u, ref)
    IN IF rs = <<>> THEN s
       ELSE [StartIfNeeded(s) EXCEPT
                !.userInput = Encode(rs),
                !.errors = Cardinality({j \in 1..Len(rs) : isError(j)})]

InitLayout ==
    /\ pc = "typing"
    /\ now = 1
    /\ \E f \in DOMAIN LayoutRefs, rs \in LayoutInputs :
            state = Typed([ZeroState EXCEPT !.referenceText = LayoutRefs[f],
                                            !.testFile = f], rs)
    /\ testResult = ZeroState
    /\ screenSize \in LayoutScreens
    /\ history = <<>>
    /\ args = [fn |-> "renderScreen"]
    /\ result = NoCall

\* renderScreen(screen, state, width) at the top of the loop of runTypingTest
RenderFrame ==
    /\ pc = "typing"
    /\ args.fn = "renderScreen"
    /\ result = NoCall
    /\ \E refMidpoint \in RefMidpoints(Len(state.userInput),
                                       Len(state.referenceText),
                                       Len(wrapText(state.referenceText,
                                           Max(20, screenSize[1]
                                               - (Min(4, screenSize[1] \div 10) * 2))))),
          completionPct \in CompletionPcts(Len(state.userInput),
                                           Len(state.referenceText)) :
            result' = renderScreen(state, screenSize, refMidpoint, completionPct)
    /\ UNCHANGED <<pc, state, testResult, now, screenSize, history, args>>

NextLayout == RenderFrame

SpecLayout == InitLayout /\ [][NextLayout]_vars

----------------------------------------------------------------------------
(* The layout studied over the sizes of the screen: one short session on   *)
(* every screen of ViewWidths x ViewHeights.                               *)

\* The widths and heights up to these are all taken.
MaxWidth == 42
MaxHeight == 26

ViewWidths == (1..MaxWidth) \cup {80, 200}
ViewHeights == (1..MaxHeight) \cup {50, 100}

InitViewport ==
    /\ pc = "typing"
    /\ now = 1
    /\ state = Typed([ZeroState EXCEPT !.referenceText = LayoutRefs.short,
                                       !.testFile = "short"], <<Rune.a>>)
    /\ testResult = ZeroState
    /\ screenSize \in ViewWidths \X ViewHeights
    /\ history = <<>>
    /\ args = [fn |-> "renderScreen"]
    /\ result = NoCall

SpecViewport == InitViewport /\ [][NextLayout]_vars

----------------------------------------------------------------------------
(* The metrics: float64 values as exact fractions num/den, +Inf and NaN.   *)
(* A duration is a whole number of half seconds.                           *)

Frac(n, d) == [kind |-> "num", num |-> n, den |-> d]
PosInf == [kind |-> "inf"]
NaN == [kind |-> "nan"]

\* float64(words) / minutes for a duration of halves half seconds
\* (minutes = halves/120): IEEE division by zero gives +Inf, 0/0 gives NaN.
WordsPerMinute(words, halves) ==
    IF halves = 0 THEN (IF words = 0 THEN NaN ELSE PosInf)
    ELSE Frac(words * 120, halves)

\* wpm < 0: false of NaN and of +Inf.
IsNegative(x) == x.kind = "num" /\ x.num < 0

\* renderScreen and renderMinimalScreen: wpm of a running test, elapsed =
\* time.Since(startTime) being halves half seconds.
liveWpm(charCount, halves) ==
    LET wpm == WordsPerMinute(charCount \div 5, halves)
    IN IF IsNegative(wpm) \/ halves < 2 THEN Frac(0, 1) ELSE wpm

\* handlePostTest: wpm of a completed test, endTime.Sub(startTime) being
\* halves half seconds.
finalWpm(refLength, halves) == WordsPerMinute(refLength \div 5, halves)

\* Mutant of accuracy: the clamp at 0 is lost.
accuracyNoClamp(inputLength, errors) ==
    IF inputLength > 0 THEN Frac(100 * (inputLength - errors), inputLength)
    ELSE Frac(100, 1)

\* handlePostTest: accuracy of a completed test.
accuracy(inputLength, errors) ==
    LET a == IF inputLength > 0
             THEN Frac(100 * (inputLength - errors), inputLength)
             ELSE Frac(100, 1)
    IN IF a.num < 0 THEN Frac(0, 1) ELSE a

----------------------------------------------------------------------------
(* The metrics studied on their own.                                       *)

\* Largest input length and error count of an accuracy.
MaxCount == 10
\* Largest character count of a wpm.
MaxChars == 50
\* Longest duration in half seconds, the minute apart.
MaxHalves == 4

\* One minute, in half seconds.
Minute == 120

Durations == (0..MaxHalves) \cup {Minute}

InitMetrics ==
    /\ Idle
    /\ \/ \E l \in 0..MaxCount, e \in 0..MaxCount :
            args = [fn |-> "accuracy", inputLength |-> l, errors |-> e]
       \/ \E c \in 0..MaxChars, h \in Durations :
            args = [fn |-> "liveWpm", charCount |-> c, halves |-> h]
       \/ \E c \in 0..MaxChars, h \in Durations :
            args = [fn |-> "finalWpm", charCount |-> c, halves |-> h]
    /\ result = NoCall

\* accuracy := ... in handlePostTest
CallAccuracy ==
    /\ args.fn = "accuracy"
    /\ result = NoCall
    /\ result' = [fn |-> "accuracy",
                  value |-> accuracy(args.inputLength, args.errors)]
    /\ UNCHANGED <<pc, state, testResult, now, screenSize, history, args>>

\* wpm := ... in renderScreen and renderMinimalScreen
CallLiveWpm ==
    /\ args.fn = "liveWpm"
    /\ result = NoCall
    /\ result' = [fn |-> "liveWpm",
                  value |-> liveWpm(args.charCount, args.halves)]
    /\ UNCHANGED <<pc, state, testResult, now, screenSize, history, args>>

\* wpm := ... in handlePostTest
CallFinalWpm ==
    /\ args.fn = "finalWpm"
    /\ result = NoCall
    /\ result' = [fn |-> "finalWpm",
                  value |-> finalWpm(args.charCount, args.halves)]
    /\ UNCHANGED <<pc, state, testResult, now, screenSize, history, args>>

NextMetrics ==
    \/ CallAccuracy
    \/ CallLiveWpm
    \/ CallFinalWpm

SpecMetrics == InitMetrics /\ [][NextMetrics]_vars

----------------------------------------------------------------------------
(* The painting of the input, character by character, of the two           *)
(* renderScreen of src/unnamed/part_003 (the renderScreen of src/main.go   *)
(* draws every input line with tcell.StyleDefault).                        *)

\* runeStyles: the style of each rune of userInput, by rune index.
runeStyles(userInput, referenceText) ==
    LET userInputRunes == Runes(userInput)
        refTextRunes == Runes(referenceText)
    IN [i \in 1..Len(userInputRunes) |->
            IF i <= Len(refTextRunes)
            THEN (IF userInputRunes[i] = refTextRunes[i]
                  THEN "correct" ELSE "incorrect")
            ELSE "incorrect"]

\* The runes of the lines, line after line.
RECURSIVE LineRunes(_)
LineRunes(lines) ==
    IF lines = <<>> THEN <<>>
    ELSE Runes(Head(lines)) \o LineRunes(Tail(lines))

\* part_003:263-308: every rune of every wrapped line is drawn with the
\* style at runeOffset, which counts the runes drawn so far.
DrawWrappedInput(userInput, referenceText, width) ==
    LET styles == runeStyles(userInput, referenceText)
        drawn == LineRunes(wrapText(userInput, width - 4))
    IN [fn |-> "DrawWrappedInput", fault |-> FALSE,
        cells |-> [runeOffset \in 1..Len(drawn) |->
                    [ch |-> drawn[runeOffset],
                     style |-> IF runeOffset <= Len(styles)
                               THEN styles[runeOffset] ELSE "incorrect"]]]

\* part_003:805-838: for i, r := range state.userInput, i being the byte
\* offset of r; s is the rest of userInput. []rune(referenceText)[i] panics
\* when i is no index of the runes.
RECURSIVE DrawFrom(_, _, _)
DrawFrom(s, i, referenceText) ==
    IF s = <<>> THEN [cells |-> <<>>, fault |-> FALSE]
    ELSE LET d == DecodeRune(s)
             r == d[1]
             refRunes == Runes(referenceText)
         IN IF i < Len(referenceText) /\ i >= Len(refRunes)
            THEN [cells |-> <<>>, fault |-> TRUE]
            ELSE LET style == IF i < Len(referenceText)
                              THEN (IF r = refRunes[i + 1]
                                    THEN "correct" ELSE "incorrect")
                              ELSE "incorrect"
                     rest == DrawFrom(SubSeq(s, d[2] + 1, Len(s)), i + d[2],
                                      referenceText)
                 IN IF r = NL THEN rest
                    ELSE [cells |-> <<[ch |-> r, style |-> style]>> \o rest.cells,
                          fault |-> rest.fault]

DrawTypedInput(userInput, referenceText) ==
    LET d == DrawFrom(userInput, 0, referenceText)
    IN [fn |-> "DrawTypedInput", fault |-> d.fault, cells |-> d.cells]

----------------------------------------------------------------------------
(* The painting studied on its own.                                        *)

\* Most runes of a painted input.
MaxPaintLen == 3

PaintAlphabet == {Rune.a, Rune.b, Rune.space, NL, Rune.eacute}

PaintRefs ==
    {Encode(<<Rune.a, NL, Rune.b>>), Encode(<<Rune.a, Rune.space, Rune.b>>),
     Encode(<<Rune.a, Rune.b>>), Encode(<<Rune.eacute, Rune.a>>)}

\* Screens of 6 and of 24 columns wrap at 2 and at 20.
PaintWidths == {6, 24}

\* u starts with all of ref: the attempt was completed before
\* (part_003:211-215).
StartsWith(u, ref) == Len(u) >= Len(ref) /\ SubSeq(u, 1, Len(ref)) = ref

\* part_003:184-190: Enter adds a newline only where referenceText has one.
NewlinesAsReference(u, ref) ==
    \A p \in 1..Len(u) : u[p] = NL => (p <= Len(ref) /\ ref[p] = NL)

InitPaint ==
    /\ Idle
    /\ \E rs \in SeqsUpTo(PaintAlphabet, MaxPaintLen), ref \in PaintRefs,
          w \in PaintWidths :
            /\ ~StartsWith(Encode(rs), ref)
            /\ NewlinesAsReference(Encode(rs), ref)
            /\ args = [fn |-> "paint", userInput |-> Encode(rs),
                       referenceText |-> ref, width |-> w]
    /\ result = NoCall

\* The frame of part_003:222-332.
PaintWrapped ==
    /\ args.fn = "paint"
    /\ result = NoCall
    /\ result' = DrawWrappedInput(args.userInput, args.referenceText, args.width)
    /\ UNCHANGED <<pc, state, testResult, now, screenSize, history, args>>

\* The frame of part_003:764-853.
PaintTyped ==
    /\ args.fn = "paint"
    /\ result = NoCall
    /\ result' = DrawTypedInput(args.userInput, args.referenceText)
    /\ UNCHANGED <<pc, state, testResult, now, screenSize, history, args>>

NextPaint ==
    \/ PaintWrapped
    \/ PaintTyped

SpecPaint == InitPaint /\ [][NextPaint]_vars

----------------------------------------------------------------------------
(* The loop of runTypingTest with its frame: every turn renders the state  *)
(* and then handles one key. A few keys are typed freely, then the user    *)
(* corrects the input: backspaces down to the typed part that agrees with  *)
(* referenceText, then the characters that follow.                         *)

\* Most keys typed freely before the correction.
MaxFreeKeys == 3

\* A screen with the full layout and one with the minimal display.
CompleteScreens == {InitialSize, <<30, 10>>}

\* main.go:181: the frames renderScreen may draw of the state.
Frames ==
    {renderScreen(state, screenSize, refMidpoint, completionPct) :
        refMidpoint \in RefMidpoints(Len(state.userInput),
                                     Len(state.referenceText),
                                     Len(wrapText(state.referenceText,
                                         Max(20, screenSize[1]
                                             - (Min(4, screenSize[1] \div 10) * 2))))),
        completionPct \in CompletionPcts(Len(state.userInput),
                                         Len(state.referenceText))}

\* main.go:195-199
AfterBackspace(s) ==
    IF Len(s.userInput) > 0 THEN [s EXCEPT !.userInput = DropLast(@)] ELSE s

\* main.go:200-218
AfterEnter(s) ==
    LET s1 == StartIfNeeded(s)
        s2 == [s1 EXCEPT !.userInput = @ \o <<NL>>]
    IN [s2 EXCEPT !.errors = IF NewlineIsError(s2.userInput, s2.referenceText)
                             THEN @ + 1 ELSE @]

\* main.go:219-245
AfterRune(s, r) ==
    LET s1 == StartIfNeeded(s)
        s2 == [s1 EXCEPT !.userInput = @ \o UTF8(r)]
        s3 == [s2 EXCEPT !.errors = IF RuneIsError(s2.userInput, s2.referenceText)
                                    THEN @ + 1 ELSE @]
    IN IF IsComplete(s3.userInput, s3.referenceText)
       THEN [s3 EXCEPT !.testComplete = TRUE, !.endTime = now]
       ELSE s3

\* u is the start of ref up to one of its characters, and not all of it.
OnTrack(u, ref) ==
    /\ Len(u) < Len(ref)
    /\ SubSeq(ref, 1, Len(u)) = u
    /\ ~IsCont(ref[Len(u) + 1])

\* The key of the correction: Backspace while the input strays from the
\* reference, else the next character of the reference (Enter for a newline).
AfterCorrectKey(s) ==
    IF ~OnTrack(s.userInput, s.referenceText) THEN AfterBackspace(s)
    ELSE LET r == DecodeRune(SubSeq(s.referenceText, Len(s.userInput) + 1,
                                    Len(s.referenceText)))[1]
         IN IF r = NL THEN AfterEnter(s) ELSE AfterRune(s, r)

\* The outcome of renderScreen on the input: the frame is on the screen, or
\* it panicked (strings.Repeat with a negative count, main.go:529-533).
Drawn(userInput, fault) ==
    [fn |-> "renderScreen", userInput |-> userInput, fault |-> fault]

\* The frame of the state is on the screen: the loop is at PollEvent.
AtPollEvent ==
    /\ pc = "typing"
    /\ result = Drawn(state.userInput, FALSE)

InitComplete ==
    /\ pc = "typing"
    /\ now = 1
    /\ \E f \in DOMAIN TestFiles :
        /\ TrimSpace(TestFiles[f]) # <<>>
        /\ state = NewTest(f)
    /\ testResult = ZeroState
    /\ screenSize \in CompleteScreens
    /\ history = <<>>
    /\ args = [fn |-> "renderScreen"]
    /\ result = NoCall

\* main.go:181: the frame is drawn, or it panics and the program ends.
Render ==
    /\ pc = "typing"
    /\ ~AtPollEvent
    /\ \E frame \in Frames :
        /\ result' = Drawn(state.userInput, ~frame.minimal /\ frame.fault)
        /\ pc' = IF result'.fault THEN "crashed" ELSE pc
    /\ UNCHANGED <<state, testResult, now, screenSize, history, args>>

\* main.go:179-181: the loop calls renderScreen, whatever comes of it.
CallsRenderScreen ==
    /\ pc = "typing"
    /\ ~AtPollEvent
    /\ \E fault \in BOOLEAN :
        /\ result' = Drawn(state.userInput, fault)
        /\ pc' = IF fault THEN "crashed" ELSE pc
    /\ UNCHANGED <<state, testResult, now, screenSize, history, args>>

FreeRune ==
    /\ AtPollEvent
    /\ Len(history) < MaxFreeKeys
    /\ TypeRune

FreeBackspace ==
    /\ AtPollEvent
    /\ Len(history) < MaxFreeKeys
    /\ KeyBackspace

FreeEnter ==
    /\ AtPollEvent
    /\ Len(history) < MaxFreeKeys
    /\ KeyEnter

\* One key of the correction; history keeps the keys typed freely.
CorrectKey ==
    /\ AtPollEvent
    /\ state' = AfterCorrectKey(state)
    /\ IF state'.testComplete
       THEN testResult' = state' /\ pc' = "post"
       ELSE UNCHANGED <<pc, testResult>>
    /\ UNCHANGED <<now, screenSize, history>>
    /\ UNCHANGED pure

NextComplete ==
    \/ Render
    \/ FreeRune
    \/ FreeBackspace
    \/ FreeEnter
    \/ CorrectKey

\* The loop renders before it polls (every step of Render is one of
\* CallsRenderScreen), and the user goes on correcting.
SpecComplete ==
    InitComplete /\ [][NextComplete]_vars
        /\ WF_vars(CallsRenderScreen) /\ WF_vars(CorrectKey)

----------------------------------------------------------------------------
(* What the specification says of a keystroke sequence, counted in code    *)
(* points: the reading the claims are checked against.                     *)

Last(q) == q[Len(q)]
Front(q) == SubSeq(q, 1, Len(q) - 1)

\* The character a key event appends (Enter appends a newline).
Appended(e) == IF e.key = "Enter" THEN NL ELSE e.ch

\* Replays the key events h over the reference runes ref: the input as a
\* sequence of code points and the number of mismatching appends.
RECURSIVE Replay(_, _, _, _)
Replay(h, ref, input, errs) ==
    IF h = <<>> THEN [input |-> input, errors |-> errs]
    ELSE LET e == Head(h) IN
         IF e.key = "Backspace"
         THEN Replay(Tail(h), ref, IF input = <<>> THEN <<>> ELSE Front(input), errs)
         ELSE LET c == Appended(e)
                  pos == Len(input) + 1
                  bad == pos > Len(ref) \/ ref[pos] # c
              IN Replay(Tail(h), ref, Append(input, c), IF bad THEN errs + 1 ELSE errs)

\* The step of runTypingTest that consumed one more key event.
KeyStep == pc = "typing" /\ Len(history') = Len(history) + 1
RuneStep == KeyStep /\ Last(history').key = "Rune"
EnterStep == KeyStep /\ Last(history').key = "Enter"
BackspaceStep == KeyStep /\ Last(history').key = "Backspace"

\* Whether the character c, the last code point of the input u, mismatches
\* the reference ref at its code-point position.
MismatchAtCodePoint(u, ref, c) ==
    LET pos == Len(Runes(u))
        rr == Runes(ref)
    IN pos > Len(rr) \/ rr[pos] # c

abText == Encode(<<Rune.a, Rune.b>>)
catText == Encode(<<Rune.c, Rune.a, Rune.t>>)

----------------------------------------------------------------------------
(* The claims.                                                             *)

\* C1: after every keystroke sequence of an attempt, errors equals the
\* number of appends of the sequence whose character differed from the
\* reference character at the code-point position it was appended to
\* (every append beyond the reference counted), backspaces adding nothing.
C1_ErrorsCountMismatchedAppends ==
    state.errors = Replay(history, Runes(state.referenceText), <<>>, 0).errors

\* C2: a completed test was started, its input equals the reference text
\* exactly and its end time is not before its start time; the same holds
\* of the snapshot runTypingTest returned.
C2_CompletedIsExact ==
    \A s \in {state, testResult} :
        s.testComplete =>
            /\ s.testStarted
            /\ s.userInput = s.referenceText
            /\ Runes(s.userInput) = Runes(s.referenceText)
            /\ s.endTime >= s.startTime

\* C2 witness: a test on a multi-byte reference completed after time passed.
C2_Witness ==
    /\ pc = "post"
    /\ state.testComplete
    /\ state.referenceText = Encode(<<Rune.eacute, Rune.a>>)
    /\ state.endTime > state.startTime

\* C3: a started session whose input equals the reference after an edit
\* (rune, newline or backspace) is Completed.
C3_EditReachingReferenceCompletes ==
    (state.testStarted /\ Len(history) > 0
        /\ state.userInput = state.referenceText) => state.testComplete

\* C4 as stated: with reference ab the keys a, b leave the session in
\* progress, so that c is processed next and overflows.
C4_Original ==
    (state.referenceText = abText
        /\ history = <<KeyRuneEv(Rune.a), KeyRuneEv(Rune.b)>>)
    => (pc = "typing" /\ ~state.testComplete /\ ENABLED KeyRune(Rune.c))

\* C4 amended: with reference ab the keys a, b complete the test (input ab,
\* no error), no key is processed after them and the input abc is never
\* reached; the overflowing keys a, c, c leave the input acc with 2 errors
\* and the test not complete; an input longer than the reference is never
\* complete.
C4_Amended ==
    state.referenceText = abText =>
        /\ history = <<KeyRuneEv(Rune.a), KeyRuneEv(Rune.b)>> =>
                /\ state.testComplete
                /\ pc # "typing"
                /\ state.userInput = abText
                /\ state.errors = 0
        /\ state.userInput # Encode(<<Rune.a, Rune.b, Rune.c>>)
        /\ history = <<KeyRuneEv(Rune.a), KeyRuneEv(Rune.c), KeyRuneEv(Rune.c)>> =>
                /\ state.userInput = Encode(<<Rune.a, Rune.c, Rune.c>>)
                /\ state.errors = 2
                /\ ~state.testComplete
        /\ Len(state.userInput) > Len(state.referenceText) => ~state.testComplete

\* C4 witness: the overflow of the reference ab by the keys a, c, c.
C4_Witness ==
    /\ state.referenceText = abText
    /\ history = <<KeyRuneEv(Rune.a), KeyRuneEv(Rune.c), KeyRuneEv(Rune.c)>>
    /\ Len(state.userInput) = 3
    /\ pc = "typing"

\* C5: with reference cat the keys c, a, x, backspace, t end with the input
\* cat, 1 error and the test complete.
C5_CatScenario ==
    (state.referenceText = catText
        /\ history = <<KeyRuneEv(Rune.c), KeyRuneEv(Rune.a), KeyRuneEv(Rune.x),
                       KeyBackspaceEv, KeyRuneEv(Rune.t)>>)
    => /\ state.userInput = catText
       /\ state.errors = 1
       /\ state.testComplete
       /\ testResult = state
       /\ pc # "typing"

\* C5 witness: the scenario's five keys were typed on the reference cat.
C5_Witness ==
    /\ state.referenceText = catText
    /\ history = <<KeyRuneEv(Rune.c), KeyRuneEv(Rune.a), KeyRuneEv(Rune.x),
                   KeyBackspaceEv, KeyRuneEv(Rune.t)>>
    /\ pc = "post"

\* C6: a rune key appends exactly its character c to the input and adds 1
\* to errors exactly when c mismatches the reference at the code-point
\* position it now holds (or lies beyond the reference), else adds nothing.
C6_AppendScoredByCodePoint ==
    [][RuneStep =>
        LET c == Last(history').ch IN
        /\ state'.userInput = state.userInput \o UTF8(c)
        /\ state'.errors = state.errors +
              (IF MismatchAtCodePoint(state'.userInput, state.referenceText, c)
               THEN 1 ELSE 0)]_vars

\* C7: backspace on a non-empty input removes exactly its last code point
\* (so it undoes the append of any character), on an empty input nothing.
C7_BackspaceRemovesCodePoint ==
    [][BackspaceStep =>
        IF state.userInput = <<>>
        THEN state'.userInput = <<>>
        ELSE state.userInput =
                state'.userInput \o UTF8(Last(Runes(state.userInput)))]_vars

\* C8: no event of an attempt (rune, newline, backspace, cancel, resize,
\* time passing) lowers errors, and a backspace leaves it unchanged.
C8_ErrorsNeverDecrease ==
    [][pc = "typing" =>
        /\ state'.errors >= state.errors
        /\ BackspaceStep => state'.errors = state.errors]_vars

\* C8 witness: a backspace emptied the input of a character that was
\* counted as an error, and the error is still counted.
C8_Witness ==
    /\ pc = "typing"
    /\ Len(history) = 2
    /\ history[1].key = "Rune"
    /\ history[2].key = "Backspace"
    /\ state.userInput = <<>>
    /\ state.errors = 1

\* C9: Enter always appends a newline to the input, starts the session if
\* it was not started, and adds 1 to errors exactly when the newline's
\* code-point position is beyond the reference or the reference character
\* there is not a newline.
C9_NewlineScoredLikeCharacter ==
    [][EnterStep =>
        /\ state'.userInput = state.userInput \o <<NL>>
        /\ state'.testStarted
        /\ state'.errors = state.errors +
              (IF MismatchAtCodePoint(state'.userInput, state.referenceText, NL)
               THEN 1 ELSE 0)]_vars

\* C10 as stated: the first keystroke of an attempt, whichever key it is,
\* starts the session.
C10_Original ==
    (pc = "typing" /\ Len(history) >= 1) => state.testStarted

\* C10 amended: the first rune or Enter key of an attempt starts the
\* session and records the clock as startTime; a backspace neither starts
\* the session nor touches startTime; once started, no event of the attempt
\* changes testStarted or startTime; no other event starts the session.
C10_Amended ==
    [][pc = "typing" =>
        /\ (RuneStep \/ EnterStep) /\ ~state.testStarted =>
                state'.testStarted /\ state'.startTime = now
        /\ BackspaceStep =>
                /\ state'.testStarted = state.testStarted
                /\ state'.startTime = state.startTime
        /\ state.testStarted =>
                state'.testStarted /\ state'.startTime = state.startTime
        /\ ~(RuneStep \/ EnterStep) => state'.testStarted = state.testStarted]_vars

\* C10 witness: an attempt whose first key was a backspace, started by a
\* later key after time had passed, with a further key processed since.
C10_Witness ==
    /\ pc = "typing"
    /\ Len(history) >= 3
    /\ history[1].key = "Backspace"
    /\ state.testStarted
    /\ state.startTime > 1

\* C11: within an attempt testStarted and testComplete only go from false
\* to true: no key, cancel, resize or passing of time sets either back.
C11_FlagsOneWay ==
    [][(pc = "typing" \/ (pc = "post" /\ pc' = "post")) =>
        /\ state.testStarted => state'.testStarted
        /\ state.testComplete => state'.testComplete]_vars

\* C11 witness: a started attempt whose input a backspace emptied again.
C11_Witness ==
    /\ pc = "typing"
    /\ state.testStarted
    /\ state.userInput = <<>>
    /\ Len(history) >= 2
    /\ Last(history).key = "Backspace"

\* C12: Escape ends the attempt and returns the state as it was before the
\* event: input, errors, testStarted, startTime and endTime untouched,
\* testComplete false.
C12_CancelReturnsSnapshot ==
    [][(pc = "typing" /\ pc' # "typing" /\ ~state'.testComplete) =>
        /\ testResult' = state
        /\ state' = state
        /\ ~testResult'.testComplete
        /\ testResult'.endTime = ZeroTime]_vars

\* C12 witness: a cancelled attempt that had been started and had errors.
C12_Witness ==
    /\ pc = "welcome"
    /\ testResult.testStarted
    /\ ~testResult.testComplete
    /\ testResult.errors >= 1
    /\ testResult.userInput # <<>>
    /\ now > testResult.startTime

\* The attempt has ended: completed, or left by Escape.
Ended == state.testComplete \/ pc # "typing"

\* C13: once an attempt is Completed or Abandoned no key event is applied
\* to it: its input and errors stay as they are (until main resets or
\* replaces the state for another attempt).
C13_NoTypingAfterEnd ==
    [][Ended =>
        \/ /\ state'.userInput = state.userInput
           /\ state'.errors = state.errors
           /\ history' = history
        \/ /\ state'.userInput = <<>>
           /\ state'.errors = 0
           /\ ~state'.testStarted
           /\ history' = <<>>]_vars

\* C13 witness: a completed attempt on which time went on.
C13_Witness ==
    /\ pc = "post"
    /\ state.testComplete
    /\ now > state.endTime

\* Retry was chosen after a completed attempt and main is back at the
\* welcome screen.
RetryPending ==
    /\ pc = "welcome"
    /\ state.testFile # ""
    /\ ~state.testComplete
    /\ testResult.testComplete

\* C14: the attempt that follows Retry runs on the identical reference
\* text, with empty input, no errors, not started, not complete.
C14_RetryKeepsText ==
    [][(RetryPending /\ pc' = "typing") =>
        /\ state'.referenceText = state.referenceText
        /\ state'.userInput = <<>>
        /\ state'.errors = 0
        /\ ~state'.testStarted
        /\ ~state'.testComplete]_vars

\* C20: a resize during an attempt changes the screen size and nothing of
\* the TestState (nor the snapshot, the clock or main's position).
C20_ResizeOnlyViewport ==
    [][(pc = "typing" /\ screenSize' # screenSize) =>
        /\ state' = state
        /\ testResult' = testResult
        /\ pc' = pc
        /\ now' = now
        /\ history' = history]_vars

\* C20 witness: a started attempt with input and errors, on a terminal
\* that is no longer of its initial size.
C20_Witness ==
    /\ pc = "typing"
    /\ screenSize # InitialSize
    /\ state.testStarted
    /\ state.userInput # <<>>
    /\ state.errors >= 1

Wrapped == result.fn = "wrapText"

\* C15: for every text and every width > 0, every line wrapText returns
\* has display width at most width.
C15_LinesFitWidth ==
    Wrapped => \A i \in 1..Len(result.lines) :
                    StringWidth(result.lines[i]) <= args.width

\* C16: wrapText of the empty string returns no line at all, wrapText of a
\* single newline returns exactly two empty lines.
C16_EmptyAndNewline ==
    Wrapped =>
        /\ args.text = <<>> => result.lines = <<>>
        /\ args.text = <<NL>> => result.lines = << <<>>, <<>> >>

\* A frame with the full layout was computed.
Rendered == result.fn = "renderScreen" /\ ~result.minimal

C19_CursorAfterLastTyped ==
    Rendered =>
        IF state.userInput = <<>>
        THEN /\ result.cursorLine = 0
             /\ result.cursorPos = 0
             /\ result.cursorY = result.inputStartY
             /\ result.cursorX = result.hPadding
        ELSE LET pars == SplitOn(state.userInput, NL, <<>>)
                 typed == pars[Len(pars)]
             IN /\ result.cursorLine = Len(result.inputLines) - 1
                /\ result.cursorPos =
                        StringWidth(result.inputLines[Len(result.inputLines)])
                /\ StringWidth(typed) <= result.contentWidth
                        => result.cursorPos = StringWidth(typed)

\* C25: every session that runs has a non-empty referenceText.
C25_StartedTextNonEmpty ==
    pc = "typing" => state.referenceText # <<>>

\* The positions of u that mismatch ref now.
Mismatches(u, ref) ==
    {i \in 1..Len(u) : i > Len(ref) \/ u[i] # ref[i]}

\* C28: errors is at least the number of positions of userInput that
\* mismatch now; so with errors = 0 userInput is a prefix of referenceText.
C28_ErrorsBoundMismatches ==
    pc \in {"typing", "post"} =>
        /\ state.errors >= Cardinality(Mismatches(state.userInput,
                                                  state.referenceText))
        /\ state.errors = 0 =>
                /\ Len(state.userInput) <= Len(state.referenceText)
                /\ state.userInput = SubSeq(state.referenceText, 1,
                                            Len(state.userInput))

\* C22: accuracy is 100 * (1 - errors/inputLength) clamped to [0, 100],
\* and 100 for an input of length 0; it lies in [0, 100] also when errors
\* exceeds inputLength; accuracy(10, 0) = 100 and accuracy(10, 10) = 0.
C22_AccuracyClamped ==
    result.fn = "accuracy" =>
        LET a == result.value
            l == args.inputLength
            e == args.errors
        IN /\ a.kind = "num"
           /\ 0 <= a.num
           /\ a.num <= 100 * a.den
           /\ l = 0 => a.num = 100 * a.den
           /\ l > 0 => a.num * l = a.den * Min(100 * l, Max(0, 100 * (l - e)))
           /\ (l = 10 /\ e = 0) => a.num = 100 * a.den
           /\ (l = 10 /\ e = 10) => a.num = 0

\* C22 witness: more errors than characters, the accuracy is 0.
C22_Witness ==
    /\ result.fn = "accuracy"
    /\ args.inputLength > 0
    /\ args.errors > args.inputLength
    /\ result.value = Frac(0, 1)

\* C23: the live wpm is (charCount / 5) / (elapsedSeconds / 60) with the
\* exact quotient charCount / 5, 0 when elapsedSeconds < 1, never negative,
\* and wpm(50, 60) = 10.
C23_LiveWpmExact ==
    result.fn = "liveWpm" =>
        LET w == result.value
            c == args.charCount
            h == args.halves
        IN /\ w.kind = "num"
           /\ w.num >= 0
           /\ h < 2 => w.num = 0
           /\ h >= 2 => w.num * (5 * h) = w.den * (c * Minute)
           /\ (c = 50 /\ h = Minute) => w.num = 10 * w.den

\* C27: the wpm of the completion screen is a finite number, and 0 when
\* less than a second passed between startTime and endTime.
C27_FinalWpmFinite ==
    result.fn = "finalWpm" =>
        /\ result.value.kind = "num"
        /\ args.halves < 2 => result.value.num = 0

\* C21: the completion percentage is min(100, floor(100 * len(userInput) /
\* len(referenceText))), an integer of [0, 100], on the stats line and in
\* the progress bar, also when userInput is longer than referenceText.
C21_CompletionPercent ==
    Rendered =>
        LET want == Min(100, (100 * Len(state.userInput))
                                \div Len(state.referenceText))
        IN /\ result.progress = want
           /\ result.statsShown => result.statsPct = want

\* C26: rendering a frame completes without a runtime fault: the filled
\* width of the progress bar is at most its width, the slices of wrapped
\* lines are in range.
C26_FrameNeverFaults ==
    Rendered =>
        /\ ~result.fault
        /\ result.filledWidth <= result.progressBarWidth
        /\ 0 <= result.refStartLine
        /\ result.refStartLine <= result.refEndLine
        /\ result.refEndLine <= Len(result.refLines)
        /\ 0 <= result.inputStartLine
        /\ result.inputStartLine <= result.inputEndLine
        /\ result.inputEndLine <= Len(result.inputLines)

\* C24: a screen of at least 40 columns by 15 rows gets a reference region
\* of max(2, contentHeight/3) rows and an input region of the rows that
\* remain beside the headers and the separator, both of at least 2 rows;
\* every smaller screen gets the minimal display.
C24_RegionsPartition ==
    result.fn = "renderScreen" =>
        IF screenSize[1] >= 40 /\ screenSize[2] >= 15
        THEN /\ ~result.minimal
             /\ result.refSectionHeight = Max(2, result.contentHeight \div 3)
             /\ result.inputSectionHeight =
                    result.contentHeight - result.refSectionHeight
                    - result.refHeaderHeight - result.inputHeaderHeight - 1
             /\ result.refSectionHeight >= 2
             /\ result.inputSectionHeight >= 2
        ELSE result.minimal

\* C24 witness: the smallest screen with a layout, 40 by 15: 3 and 4 rows.
C24_Witness ==
    /\ Rendered
    /\ screenSize = <<40, 15>>
    /\ result.contentHeight = 10
    /\ result.refSectionHeight = 3
    /\ result.inputSectionHeight = 4

\* The index in rs of its k-th rune that is no white space.
NthGlyph(rs, k) ==
    CHOOSE i \in 1..Len(rs) :
        /\ ~IsSpace(rs[i])
        /\ Cardinality({j \in 1..i : ~IsSpace(rs[j])}) = k

\* The classification of the character of index i (from 1) of the input.
Classified(userRunes, refRunes, i) ==
    IF i <= Len(refRunes) /\ userRunes[i] = refRunes[i]
    THEN "correct" ELSE "incorrect"

\* C30: the character of index i of userInput is correct iff the reference
\* has the same character at index i, and its glyph is painted with that
\* classification, also when the input wraps or holds spaces and newlines:
\* the k-th glyph drawn that is no space is the k-th such character typed.
C30_GlyphsPaintedByIndex ==
    result.fn \in {"DrawWrappedInput", "DrawTypedInput"} =>
        LET userRunes == Runes(args.userInput)
            refRunes == Runes(args.referenceText)
            glyphs == SelectSeq(result.cells, LAMBDA c : ~IsSpace(c.ch))
        IN /\ ~result.fault
           /\ Len(glyphs) = Cardinality({i \in 1..Len(userRunes) :
                                            ~IsSpace(userRunes[i])})
           /\ \A k \in 1..Len(glyphs) :
                glyphs[k].style =
                    Classified(userRunes, refRunes, NthGlyph(userRunes, k))

\* C29: from every state of an attempt on a non-empty referenceText in which
\* the test is neither completed nor cancelled, some finite sequence of keys
\* (backspaces, then the correct characters) completes the session: the
\* user who types that sequence always arrives at the completion.
C29_CompletionAlwaysPossible ==
    (pc = "typing" /\ state.referenceText # <<>>) ~> (pc = "post" /\ state.testComplete)

\* The same on the screen of the minimal display, where no frame panics.
CompletionOnMinimalScreen ==
    (pc = "typing" /\ screenSize = <<30, 10>>) ~> (pc = "post" /\ state.testComplete)

\* The words of the text are all of one paragraph and none is wider than
\* the line.
OneParagraphOfWords ==
    /\ \A i \in 1..Len(args.text) : args.text[i] # NL
    /\ Fields(args.text) # <<>>
    /\ \A i \in 1..Len(Fields(args.text)) :
            StringWidth(Fields(args.text)[i]) <= args.width

\* The packing the specification describes: a word joins the line, after one
\* space if the line is not empty, exactly when the width of the line, the
\* separator and the word together are at most width.
RECURSIVE Greedy(_, _, _, _)
Greedy(words, width, line, lines) ==
    IF words = <<>> THEN (IF line # <<>> THEN Append(lines, line) ELSE lines)
    ELSE LET word == Head(words)
             separator == IF line # <<>> THEN 1 ELSE 0
         IN IF StringWidth(line) + separator + StringWidth(word) <= width
            THEN Greedy(Tail(words), width,
                        (IF line # <<>> THEN line \o <<Rune.space>> ELSE line)
                            \o word, lines)
            ELSE Greedy(Tail(words), width, word, Append(lines, line))

\* C31: within a paragraph of words not wider than the line, wrapText packs
\* greedily: a word is appended to the current line, after one space if the
\* line is not empty, exactly when line, separator and word fit the width;
\* otherwise the line is emitted and the word starts the next one.
C31_GreedyPacking ==
    (Wrapped /\ OneParagraphOfWords) =>
        result.lines = Greedy(Fields(args.text), args.width, <<>>, <<>>)

\* The lines one after the other, nothing between them.
RECURSIVE ConcatLines(_)
ConcatLines(lines) ==
    IF lines = <<>> THEN <<>> ELSE Head(lines) \o ConcatLines(Tail(lines))

\* The text is one word and it is wider than the line.
OneLongWord ==
    /\ Fields(args.text) = <<args.text>>
    /\ StringWidth(args.text) > args.width

\* C32: a word wider than the line is split character by character: if all
\* its glyphs have width 1 every piece but the last has width exactly width;
\* the split emits no empty line; the pieces in order give back the word.
C32_ForcedSplit ==
    (Wrapped /\ OneLongWord) =>
        /\ (\A i \in 1..Len(Runes(args.text)) : RuneWidth(Runes(args.text)[i]) = 1)
            => \A i \in 1..(Len(result.lines) - 1) :
                    StringWidth(result.lines[i]) = args.width
        /\ \A i \in 1..Len(result.lines) : result.lines[i] # <<>>
        /\ ConcatLines(result.lines) = args.text

\* The case "Long word" of TestWrapText was wrapped at the width of the test.
LongWordCase ==
    /\ Wrapped
    /\ args.text = LongWordText
    /\ args.width = TestCases[2].width

LongWord == Fields(LongWordText)[4]
WordAfter == Fields(LongWordText)[5]

\* The long word starts at the head of line i, fills the lines from i with
\* pieces of exactly width glyphs, and its remainder heads the line after
\* them, followed by the next word, after one space, exactly if that fits.
SplitFromLine(lines, i, width) ==
    LET full == Len(LongWord) \div width
        remainder == SubSeq(LongWord, full * width + 1, Len(LongWord))
    IN /\ i + full - 1 <= Len(lines)
       /\ \A k \in 0..(full - 1) :
            lines[i + k] = SubSeq(LongWord, k * width + 1, (k + 1) * width)
       /\ remainder # <<>> =>
            /\ i + full <= Len(lines)
            /\ IF Len(remainder) + 1 + Len(WordAfter) <= width
               THEN SubSeq(lines[i + full], 1, Len(remainder) + 1 + Len(WordAfter))
                        = remainder \o <<Rune.space>> \o WordAfter
               ELSE lines[i + full] = remainder

Paragraphs == SplitOn(args.text, NL, <<>>)

\* The characters of s that are no white space.
Stripped(s) == SelectSeq(Runes(s), LAMBDA r : ~IsSpace(r))

\* The lines of the paragraphs, each paragraph wrapped by itself.
RECURSIVE LinesOf(_, _)
LinesOf(paragraphs, width) ==
    IF paragraphs = <<>> THEN <<>>
    ELSE wrapText(Head(paragraphs), width) \o LinesOf(Tail(paragraphs), width)

\* C34: wrapText keeps the paragraphs apart: the lines are the lines of the
\* first paragraph, then those of the second, and so on; a paragraph that is
\* empty or white space only gives exactly one empty line, every paragraph
\* gives at least one line, the lines of a paragraph hold its characters and
\* no others, and a text that is not empty has at least one line more than
\* it has newlines.
C34_ParagraphStructure ==
    Wrapped =>
        /\ result.lines = LinesOf(Paragraphs, args.width)
        /\ \A k \in 1..Len(Paragraphs) :
            LET own == wrapText(Paragraphs[k], args.width)
            IN /\ Fields(Paragraphs[k]) = <<>> => own = << <<>> >>
               /\ Len(own) >= 1
               /\ Stripped(ConcatLines(own)) = Stripped(Paragraphs[k])
        /\ \A i \in 1..Len(result.lines) :
            \A j \in 1..Len(result.lines[i]) : result.lines[i][j] # NL
        /\ args.text # <<>> =>
            Len(result.lines) >= Cardinality({i \in 1..Len(args.text) :
                                                args.text[i] = NL}) + 1

\* A text of two paragraphs was wrapped, one of white space only and one
\* that took more than one line.
C34_Witness ==
    /\ Wrapped
    /\ Len(Paragraphs) = 2
    /\ \E k \in 1..2 : Paragraphs[k] # <<>> /\ Fields(Paragraphs[k]) = <<>>
    /\ Len(result.lines) = 3

\* C35: for every text and every width > 0, the lines wrapText returns, one
\* after the other and without their white space, are the text without its
\* white space: no character is dropped, doubled or moved.
C35_CharactersKept ==
    (Wrapped /\ args.width > 0) =>
        Stripped(ConcatLines(result.lines)) = Stripped(args.text)

\* A text of several words, one of them split by force, was wrapped.
C35_Witness ==
    /\ Wrapped
    /\ Len(Fields(args.text)) >= 2
    /\ \E i \in 1..Len(Fields(args.text)) :
            StringWidth(Fields(args.text)[i]) > args.width
    /\ Len(result.lines) >= 3
    /\ Stripped(args.text) # <<>>

\* The cursor of the frame drawn before the last character of the input was
\* typed, the lines wrapped at the same contentWidth.
CursorBefore ==
    LET runes == Runes(state.userInput)
        before == Encode(SubSeq(runes, 1, Len(runes) - 1))
    IN CursorOf(IF Len(before) > 0
                THEN wrapText(before, result.contentWidth) ELSE <<>>)

\* C36: typing moves the cursor: a character of display width w >= 1, a
\* space included, that leaves the cursor on its line moves it w columns to
\* the right, and a newline moves it to column 0 of the next line.
C36_TypingMovesCursor ==
    (Rendered /\ state.userInput # <<>>) =>
        LET runes == Runes(state.userInput)
            r == runes[Len(runes)]
        IN IF r = NL
           THEN /\ result.cursorLine = CursorBefore.cursorLine + 1
                /\ result.cursorPos = 0
           ELSE (RuneWidth(r) >= 1 /\ result.cursorLine = CursorBefore.cursorLine)
                    => result.cursorPos = CursorBefore.cursorPos + RuneWidth(r)

\* The cell c of the input line drawn in row c.y holds the glyph that stands
\* at byte offset c.x - hPadding of that line.
LineOfCell(c) ==
    result.inputLines[result.inputStartLine + (c.y - result.inputStartY) + 1]

\* C37: on the frame the cursor is on no cell that holds a glyph of the
\* input: every glyph of a line is drawn at column hPadding plus the display
\* width of the glyphs before it, so the cursor, at hPadding plus the display
\* width of the last line, is to the right of them all, also with multi-byte
\* and double-width characters.
C37_CursorOffGlyphs ==
    (Rendered /\ result.cursorDrawn) =>
        \A c \in InputCells(result, screenSize[2]) :
            /\ c.x = result.hPadding
                        + StringWidth(SubSeq(LineOfCell(c), 1, c.x - result.hPadding))
            /\ ~(c.x = result.cursorX /\ c.y = result.cursorY)

\* The first lines the reference window can have on the same screen, with the
\* same reference, when the input is len bytes long.
RefStartLines(len) ==
    {RefWindow(Len(result.refLines), result.refSectionHeight, mid).refStartLine :
        mid \in RefMidpoints(len, Len(state.referenceText), Len(result.refLines))}

InputRows(frame) ==
    frame.inputStartY..(frame.inputStartY + frame.inputSectionHeight - 1)

\* C39: on a screen of at least 40 columns by 15 rows the regions fit the
\* content area: the two headers, the two sections and the separator take at
\* most contentHeight rows, contentHeight is at least 4 (the layout is drawn,
\* not the minimal display), and no row of the input region, no row holding
\* a glyph of the input and not the cursor row is the row of the progress
\* bar (height - 2) or of the help line (height - 1).
C39_RegionsFitContent ==
    (result.fn = "renderScreen" /\ screenSize[1] >= 40
            /\ screenSize[2] >= 15) =>
        /\ ~result.minimal
        /\ result.contentHeight >= 4
        /\ result.refHeaderHeight + result.refSectionHeight + 1
                + result.inputHeaderHeight + result.inputSectionHeight
                <= result.contentHeight
        /\ \A y \in InputRows(result) \cup {result.cursorY}
                    \cup {c.y : c \in InputCells(result, screenSize[2])} :
                y < screenSize[2] - 2

\* C39 witness: on the smallest screen with a layout the ten rows of the
\* content are all used, and the last input row is just above the progress bar.
C39_Witness ==
    /\ Rendered
    /\ screenSize = <<40, 15>>
    /\ result.refHeaderHeight + result.refSectionHeight + 1
            + result.inputHeaderHeight + result.inputSectionHeight
            = result.contentHeight
    /\ result.inputStartY + result.inputSectionHeight - 1 = screenSize[2] - 3
    /\ InputCells(result, screenSize[2]) # {}

\* C40: on a screen that gets the layout hPadding is min(4, width/10),
\* contentWidth is width - 2 * hPadding and at least 20, and
\* hPadding + contentWidth <= width - hPadding; every wrapped line is at most
\* contentWidth columns wide, and every glyph of the input and the cursor
\* are in a column from hPadding on and inside the screen.
C40_LinesInsideViewport ==
    Rendered =>
        /\ result.hPadding = Min(4, screenSize[1] \div 10)
        /\ result.contentWidth = screenSize[1] - 2 * result.hPadding
        /\ result.contentWidth >= 20
        /\ result.hPadding + result.contentWidth
                <= screenSize[1] - result.hPadding
        /\ \A i \in 1..Len(result.refLines) :
                StringWidth(result.refLines[i]) <= result.contentWidth
        /\ \A i \in 1..Len(result.inputLines) :
                StringWidth(result.inputLines[i]) <= result.contentWidth
        /\ result.hPadding <= result.cursorX
        /\ result.cursorX <= screenSize[1] - result.hPadding
        /\ \A c \in InputCells(result, screenSize[2]) :
                result.hPadding <= c.x /\ c.x < screenSize[1]

\* The same without the cells of the glyphs: the widths only.
C40_WidthsInsideViewport ==
    Rendered =>
        /\ result.hPadding = Min(4, screenSize[1] \div 10)
        /\ result.contentWidth = screenSize[1] - 2 * result.hPadding
        /\ result.contentWidth >= 20
        /\ result.hPadding + result.contentWidth
                <= screenSize[1] - result.hPadding
        /\ \A i \in 1..Len(result.refLines) :
                StringWidth(result.refLines[i]) <= result.contentWidth
        /\ \A i \in 1..Len(result.inputLines) :
                StringWidth(result.inputLines[i]) <= result.contentWidth
        /\ result.hPadding <= result.cursorX
        /\ result.cursorX <= screenSize[1] - result.hPadding

\* Thirteen double-width runes on a screen of 40 columns: the last glyph is
\* set at column 40, beyond the last column.
GlyphBeyondTheScreen ==
    /\ Rendered
    /\ screenSize = <<40, 15>>
    /\ state.userInput = Encode(Repeat(Rune.shi, 13))
    /\ Len(result.inputLines) = 1
    /\ \E c \in InputCells(result, screenSize[2]) : c.x = 40 /\ c.ch = Rune.shi
    /\ \A c \in InputCells(result, screenSize[2]) : c.x <= 40

====
